---- MODULE Spec2Model ----
(***************************************************************************)
(* Model of gbfs_exporter.  The repository holds three builds of the       *)
(* exporter that the properties below are about:                            *)
(*   "main"   src/main.go            /probe?target=..., three process-wide *)
(*                                   gauges registered in a per-request    *)
(*                                   registry                              *)
(*   "seven"  src/unnamed/part_001   /probe?target=..., seven gauges and a *)
(*                                   registry created per request          *)
(*   "poll"   src/unnamed/part_002   background poll loop writing three    *)
(*                                   process-wide gauges, /metrics scrape  *)
(* The variable `variant` says which build is running.  The fourth file,    *)
(* src/unnamed/part_000 (a probe of a fixed URL), is not modelled.         *)
(***************************************************************************)
EXTENDS Integers, Sequences, FiniteSets, TLC

(***************************************************************************)
(* int64.  TLC integers are 32 bits wide, so an int64 is four 16-bit limbs *)
(* <<l3, l2, l1, l0>>, most significant first, value                       *)
(* l3*2^48 + l2*2^32 + l1*2^16 + l0 with l3 signed (-32768..32767) and the *)
(* other limbs in 0..65535.                                                *)
(***************************************************************************)
Limb == 65536

HalfLimb == 32768

\* the int64 of a small integer n, -2^31 < n < 2^31
I64(n) ==
  IF n >= 0 THEN <<0, 0, n \div Limb, n % Limb>>
  ELSE <<-1, Limb - 1, (n \div Limb) % Limb, n % Limb>>

MaxInt64 == <<HalfLimb - 1, Limb - 1, Limb - 1, Limb - 1>>

MinInt64 == <<-HalfLimb, 0, 0, 0>>

\* x + 1 on int64: Go's signed addition wraps around
Add1(x) ==
  IF x[4] < Limb - 1 THEN <<x[1], x[2], x[3], x[4] + 1>>
  ELSE IF x[3] < Limb - 1 THEN <<x[1], x[2], x[3] + 1, 0>>
  ELSE IF x[2] < Limb - 1 THEN <<x[1], x[2] + 1, 0, 0>>
  ELSE <<((x[1] + 1 + HalfLimb) % Limb) - HalfLimb, 0, 0, 0>>

\* x > y on int64
Gt(x, y) ==
  \/ x[1] > y[1]
  \/ x[1] = y[1] /\ x[2] > y[2]
  \/ x[1] = y[1] /\ x[2] = y[2] /\ x[3] > y[3]
  \/ x[1] = y[1] /\ x[2] = y[2] /\ x[3] = y[3] /\ x[4] > y[4]

\* the comparison of Max turned around
MaxTurned(x, y) == IF Gt(x, y) THEN y ELSE x

\* Max returns the greatest of the two integers.
Max(x, y) == IF Gt(x, y) THEN x ELSE y

\* x * 1000 on int64, wrapping
Mul1000(x) ==
  LET p0 == x[4] * 1000
      p1 == x[3] * 1000 + (p0 \div Limb)
      p2 == x[2] * 1000 + (p1 \div Limb)
      p3 == (x[1] % Limb) * 1000 + (p2 \div Limb)
      top == p3 % Limb
  IN <<IF top >= HalfLimb THEN top - Limb ELSE top, p2 % Limb, p1 % Limb, p0 % Limb>>

\* time.Duration(seconds) * time.Second: nanoseconds, wrapping (10^9 = 1000^3)
Duration(seconds) == Mul1000(Mul1000(Mul1000(seconds)))

(***************************************************************************)
(* float64(int64).  A gauge value is a float64; every float64 that an      *)
(* int64 converts to is an integer in -2^63 .. 2^63, written with the same *)
(* limbs (l3 may be 32768 for 2^63).  Values of magnitude below 2^53 are   *)
(* exact, larger ones are rounded to 53 significant bits, ties to even.    *)
(***************************************************************************)
Pow2(n) == IF n = 0 THEN 1 ELSE IF n = 1 THEN 2 ELSE IF n = 2 THEN 4
  ELSE IF n = 3 THEN 8 ELSE IF n = 4 THEN 16 ELSE IF n = 5 THEN 32
  ELSE IF n = 6 THEN 64 ELSE IF n = 7 THEN 128 ELSE IF n = 8 THEN 256
  ELSE IF n = 9 THEN 512 ELSE IF n = 10 THEN 1024 ELSE IF n = 11 THEN 2048
  ELSE IF n = 12 THEN 4096 ELSE IF n = 13 THEN 8192 ELSE IF n = 14 THEN 16384
  ELSE IF n = 15 THEN 32768 ELSE 65536

\* -x on limbs (exact: the result of negating MinInt64 is 2^63)
Neg(x) ==
  IF x[4] # 0 THEN <<-x[1] - 1, Limb - 1 - x[2], Limb - 1 - x[3], Limb - x[4]>>
  ELSE IF x[3] # 0 THEN <<-x[1] - 1, Limb - 1 - x[2], Limb - x[3], 0>>
  ELSE IF x[2] # 0 THEN <<-x[1] - 1, Limb - x[2], 0, 0>>
  ELSE <<-x[1], 0, 0, 0>>

\* m + q on a non-negative magnitude, q a power of two below 2^16
AddLow(m, q) ==
  IF m[4] + q < Limb THEN <<m[1], m[2], m[3], m[4] + q>>
  ELSE IF m[3] < Limb - 1 THEN <<m[1], m[2], m[3] + 1, m[4] + q - Limb>>
  ELSE IF m[2] < Limb - 1 THEN <<m[1], m[2] + 1, 0, m[4] + q - Limb>>
  ELSE <<m[1] + 1, 0, 0, m[4] + q - Limb>>

\* a non-negative magnitude m <= 2^63 rounded to 53 significant bits
RoundMag(m) ==
  IF m[1] < 32 \/ m[1] = HalfLimb THEN m
  ELSE LET d == CHOOSE e \in 1..10 : Pow2(4 + e) <= m[1] /\ m[1] < Pow2(5 + e)
           q == Pow2(d)
           r == m[4] % q
           down == <<m[1], m[2], m[3], m[4] - r>>
           odd == (m[4] \div q) % 2 = 1
       IN IF 2 * r > q \/ (2 * r = q /\ odd) THEN AddLow(down, q) ELSE down

Float64(x) == IF x[1] < 0 THEN Neg(RoundMag(Neg(x))) ELSE RoundMag(x)

\* BoolToFloat64 converts a boolean value to a float. 1 if true, else 0.
BoolToFloat64(x) == IF x THEN Float64(I64(1)) ELSE Float64(I64(0))

(***************************************************************************)
(* JSON documents.  A fetched body is a tagged value [k, v]:               *)
(*   "invalid"  bytes that are not JSON          "null"  the literal null  *)
(*   "num"      a number that fits an int64 (v)  "frac"  any other number  *)
(*   "str"      a string (v)                     "arr"   an array (v: seq) *)
(*   "obj"      an object, v the sequence of its members [key, val] in     *)
(*              document order                                             *)
(***************************************************************************)
JInvalid == [k |-> "invalid", v |-> 0]

JNull == [k |-> "null", v |-> 0]

JFrac == [k |-> "frac", v |-> 0]

JNum(n) == [k |-> "num", v |-> I64(n)]

JNum64(x) == [k |-> "num", v |-> x]

JStr(s) == [k |-> "str", v |-> s]

JArr(items) == [k |-> "arr", v |-> items]

JObj(members) == [k |-> "obj", v |-> members]

Member(key, val) == [key |-> key, val |-> val]

(***************************************************************************)
(* encoding/json into the repository's types.  An error is "nil",          *)
(* "syntax" (a json.SyntaxError) or "type" (a json.UnmarshalTypeError).    *)
(* A type error on a plain field is saved (the first one is kept) and      *)
(* decoding goes on; an error returned by an UnmarshalJSON method aborts   *)
(* the decoding at once; null into a plain field leaves it unchanged.      *)
(***************************************************************************)
\* decoding j into an int64 field holding old
Int64Field(j, old) == IF j.k = "num" THEN j.v ELSE old

Int64FieldErr(j) == IF j.k \in {"num", "null"} THEN "nil" ELSE "type"

\* decoding j into a string field holding old
StringField(j, old) == IF j.k = "str" THEN j.v ELSE old

StringFieldErr(j) == IF j.k \in {"str", "null"} THEN "nil" ELSE "type"

SaveError(saved, err) == IF saved = "nil" THEN err ELSE saved

\* a StationStatus whose disabled counts start at -1
StationStatusMinusOne ==
  [ID |-> "", BikesAvailable |-> I64(0), BikesDisabled |-> I64(-1),
   DocksAvailable |-> I64(0), DocksDisabled |-> I64(-1),
   Installed |-> FALSE, Renting |-> FALSE, Returning |-> FALSE,
   LastReported |-> I64(0)]

\* the zero StationStatus
StationStatus ==
  [ID |-> "", BikesAvailable |-> I64(0), BikesDisabled |-> I64(0),
   DocksAvailable |-> I64(0), DocksDisabled |-> I64(0),
   Installed |-> FALSE, Renting |-> FALSE, Returning |-> FALSE,
   LastReported |-> I64(0)]

\* the anonymous struct of UnmarshalJSON: three int64 fields that shadow the
\* bool fields of the embedded *Alias, which points at s
Alias(s) == [s |-> s, Installed |-> I64(0), Renting |-> I64(0),
             Returning |-> I64(0), err |-> "nil"]

AliasMember(a, m) ==
  LET j == m.val IN
  IF m.key = "station_id" THEN
    [a EXCEPT !.s.ID = StringField(j, @), !.err = SaveError(@, StringFieldErr(j))]
  ELSE IF m.key = "num_bikes_available" THEN
    [a EXCEPT !.s.BikesAvailable = Int64Field(j, @), !.err = SaveError(@, Int64FieldErr(j))]
  ELSE IF m.key = "num_bikes_disabled" THEN
    [a EXCEPT !.s.BikesDisabled = Int64Field(j, @), !.err = SaveError(@, Int64FieldErr(j))]
  ELSE IF m.key = "num_docks_available" THEN
    [a EXCEPT !.s.DocksAvailable = Int64Field(j, @), !.err = SaveError(@, Int64FieldErr(j))]
  ELSE IF m.key = "num_docks_disabled" THEN
    [a EXCEPT !.s.DocksDisabled = Int64Field(j, @), !.err = SaveError(@, Int64FieldErr(j))]
  ELSE IF m.key = "last_reported" THEN
    [a EXCEPT !.s.LastReported = Int64Field(j, @), !.err = SaveError(@, Int64FieldErr(j))]
  ELSE IF m.key = "is_installed" THEN
    [a EXCEPT !.Installed = Int64Field(j, @), !.err = SaveError(@, Int64FieldErr(j))]
  ELSE IF m.key = "is_renting" THEN
    [a EXCEPT !.Renting = Int64Field(j, @), !.err = SaveError(@, Int64FieldErr(j))]
  ELSE IF m.key = "is_returning" THEN
    [a EXCEPT !.Returning = Int64Field(j, @), !.err = SaveError(@, Int64FieldErr(j))]
  ELSE a

RECURSIVE AliasMembers(_, _)
AliasMembers(a, members) ==
  IF members = <<>> THEN a
  ELSE AliasMembers(AliasMember(a, Head(members)), Tail(members))

\* only the wire value 1 counts as true
NonZeroIsOne(x) == x = I64(1)

\* the int64 wire value of a boolean field: != 0
NonZero(x) == x # I64(0)

\* StationStatus.UnmarshalJSON on a zero element of the stations slice.
\* json.Unmarshal(data, &alias) is given a pointer to the pointer alias, so
\* the element null sets alias to nil and alias.Installed then dereferences
\* nil (panic).
FromAlias(a) ==
  IF a.err # "nil" THEN [s |-> a.s, err |-> a.err, panic |-> FALSE]
  ELSE [s |-> [a.s EXCEPT !.Installed = NonZero(a.Installed),
                          !.Renting = NonZero(a.Renting),
                          !.Returning = NonZero(a.Returning)],
        err |-> "nil", panic |-> FALSE]

UnmarshalJSON(j) ==
  IF j.k = "null" THEN [s |-> StationStatus, err |-> "nil", panic |-> TRUE]
  ELSE IF j.k # "obj" THEN [s |-> StationStatus, err |-> "type", panic |-> FALSE]
  ELSE FromAlias(AliasMembers(Alias(StationStatus), j.v))

\* a JSON array into []StationStatus: elements are appended in order; the
\* first element whose UnmarshalJSON fails stays in the slice as far as it
\* was filled and ends the decoding
RECURSIVE StationsArray(_, _)
\* the element u has been decoded, rest is still to come
StationsElement(done, u, rest) ==
  IF u.panic THEN [Stations |-> done, err |-> "nil", panic |-> TRUE]
  ELSE IF u.err # "nil"
    THEN [Stations |-> Append(done, u.s), err |-> u.err, panic |-> FALSE]
  ELSE StationsArray(Append(done, u.s), rest)

StationsArray(done, items) ==
  IF items = <<>> THEN [Stations |-> done, err |-> "nil", panic |-> FALSE]
  ELSE StationsElement(done, UnmarshalJSON(Head(items)), Tail(items))

\* decoding state of the top-level struct: resp, the saved type error, and
\* whether an UnmarshalJSON error (abort) or a panic ended the decoding
StationStatusAPIResponse ==
  [isNil |-> FALSE, Stations |-> <<>>, LastUpdated |-> I64(0), TTL |-> I64(0)]

DecodeState(resp) == [resp |-> resp, err |-> "nil", abort |-> FALSE, panic |-> FALSE]

\* the array a has been decoded into the Stations slice
StationsDecoded(d, a) ==
  IF a.panic THEN [d EXCEPT !.resp.Stations = a.Stations, !.panic = TRUE]
  ELSE IF a.err # "nil"
    THEN [d EXCEPT !.resp.Stations = a.Stations, !.err = a.err, !.abort = TRUE]
  ELSE [d EXCEPT !.resp.Stations = a.Stations]

StationsMember(d, j) ==
  IF j.k = "null" THEN [d EXCEPT !.resp.Stations = <<>>]
  ELSE IF j.k # "arr" THEN [d EXCEPT !.err = SaveError(@, "type")]
  ELSE StationsDecoded(d, StationsArray(<<>>, j.v))

RECURSIVE DataMembers(_, _)
DataMembers(d, members) ==
  IF members = <<>> \/ d.abort \/ d.panic THEN d
  ELSE DataMembers(IF Head(members).key = "stations"
                     THEN StationsMember(d, Head(members).val) ELSE d,
                   Tail(members))

DataMember(d, j) ==
  IF j.k = "null" THEN d
  ELSE IF j.k # "obj" THEN [d EXCEPT !.err = SaveError(@, "type")]
  ELSE DataMembers(d, j.v)

ResponseMember(d, m) ==
  IF m.key = "data" THEN DataMember(d, m.val)
  ELSE IF m.key = "ttl" THEN
    [d EXCEPT !.resp.TTL = Int64Field(m.val, @),
              !.err = SaveError(@, Int64FieldErr(m.val))]
  ELSE IF m.key = "last_updated" THEN
    [d EXCEPT !.resp.LastUpdated = Int64Field(m.val, @),
              !.err = SaveError(@, Int64FieldErr(m.val))]
  ELSE d

RECURSIVE ResponseMembers(_, _)
ResponseMembers(d, members) ==
  IF members = <<>> \/ d.abort \/ d.panic THEN d
  ELSE ResponseMembers(ResponseMember(d, Head(members)), Tail(members))

\* resp and the error Unmarshal returns when decoding ended in state d
Decoded(d) == [resp |-> d.resp, err |-> d.err, panic |-> d.panic]

\* json.Unmarshal(body, &resp) with resp = new(StationStatusAPIResponse):
\* the target is a pointer to the pointer resp, so the document null sets
\* resp itself to nil and reports no error
Unmarshal(body) ==
  IF body.k = "invalid" THEN
    [resp |-> StationStatusAPIResponse, err |-> "syntax", panic |-> FALSE]
  ELSE IF body.k = "null" THEN
    [resp |-> [StationStatusAPIResponse EXCEPT !.isNil = TRUE], err |-> "nil",
     panic |-> FALSE]
  ELSE IF body.k # "obj" THEN
    [resp |-> StationStatusAPIResponse, err |-> "type", panic |-> FALSE]
  ELSE Decoded(ResponseMembers(DecodeState(StationStatusAPIResponse), body.v))

\* GetStationStatuses returns resp and err as Unmarshal left them
GetStationStatuses(body) == Unmarshal(body)

(***************************************************************************)
(* The feeds.  What a target URL answers is the environment of the         *)
(* exporter: a set of possible responses [code, body] per target.          *)
(***************************************************************************)
\* longest stations array a feed serves
MaxStations == 2

StationDoc(id, bikes, docks, inst, rent, ret, reported, more) ==
  JObj(<<Member("station_id", JStr(id)),
         Member("num_bikes_available", JNum(bikes)),
         Member("num_docks_available", JNum(docks)),
         Member("is_installed", JNum(inst)),
         Member("is_renting", JNum(rent)),
         Member("is_returning", JNum(ret)),
         Member("last_reported", JNum(reported))>> \o more)

Station7001 == StationDoc("7001", 4, 11, 1, 1, 0, 1600000000, <<>>)

StationA1 ==
  StationDoc("A1", 2, 3, 2, 0, -1, 1600000060,
             <<Member("num_bikes_disabled", JNum(1)),
               Member("num_docks_disabled", JNum(5))>>)

StationA1Later ==
  StationDoc("A1", 0, 6, 0, -1, 1, 1600000120,
             <<Member("num_bikes_disabled", JNum(3))>>)

StationB1 ==
  StationDoc("B1", 7, 8, 1, 2, 1, 1600000090,
             <<Member("num_docks_disabled", JNum(9))>>)

\* a station entry whose num_bikes_available is a string
StationBadType ==
  JObj(<<Member("station_id", JStr("X1")),
         Member("num_bikes_available", JStr("four")),
         Member("num_docks_available", JNum(11)),
         Member("is_installed", JNum(1))>>)

FeedDoc(stations, ttl) ==
  JObj(<<Member("last_updated", JNum(1600000000)),
         Member("ttl", JNum64(ttl)),
         Member("data", JObj(<<Member("stations", JArr(stations))>>))>>)

SeqsUpTo(S, n) == UNION {[1..k -> S] : k \in 0..n}

FeedsOver(S) == {FeedDoc(st, I64(30)) : st \in SeqsUpTo(S, MaxStations)}

\* bodies that are not a station_status document
OtherDocs ==
  {JInvalid, JNull, JArr(<<>>), JNum(7), JObj(<<>>),
   JObj(<<Member("last_updated", JNum(1600000000)), Member("ttl", JNum(5))>>),
   JObj(<<Member("data", JObj(<<>>))>>),
   JObj(<<Member("data", JObj(<<Member("stations", JNum(7))>>))>>),
   FeedDoc(<<JNull>>, I64(30)),
   FeedDoc(<<Station7001, StationBadType>>, I64(30))}

Targets == {"", "http://a/station_status", "http://b/station_status",
            "http://c/station_status", "http://x/other", "http://e/error_page"}

\* the feed the poll loop fetches
PollURL == "https://tor.publicbikesystem.net/ube/gbfs/v1/en/station_status"

\* ttl values a feed may declare
TTLs == {I64(0), I64(-1), I64(5), I64(30), I64(9), MaxInt64, MinInt64,
         <<0, 2, 9665, 32004>>}

ResponsesOf(target) ==
  IF target = "http://a/station_status" THEN
    {[code |-> 200, body |-> b] : b \in FeedsOver({Station7001, StationA1, StationA1Later})}
  ELSE IF target = "http://b/station_status" THEN
    {[code |-> 200, body |-> FeedDoc(<<StationB1>>, I64(30))],
     [code |-> 200, body |-> JInvalid]}
  ELSE IF target = "http://c/station_status" THEN
    {[code |-> 200, body |-> FeedDoc(<<StationA1, Station7001>>, I64(30))],
     [code |-> 200, body |-> FeedDoc(<<StationA1, StationA1Later>>, I64(30))]}
  ELSE IF target = PollURL THEN
    {[code |-> 200, body |-> b] : b \in FeedsOver({StationA1, StationA1Later, StationB1})}
    \cup {[code |-> 200, body |-> FeedDoc(<<Station7001>>, ttl)] : ttl \in TTLs}
    \cup {[code |-> 200, body |-> b] :
            b \in {JInvalid, JNull, JObj(<<>>), FeedDoc(<<JNull>>, I64(30)),
                   FeedDoc(<<StationB1, StationBadType>>, I64(30)),
                   JObj(<<Member("ttl", JFrac),
                          Member("data", JObj(<<Member("stations", JArr(<<StationB1>>))>>))>>)}}
  ELSE IF target = "http://x/other" THEN
    {[code |-> 200, body |-> b] : b \in OtherDocs}
  ELSE IF target = "http://e/error_page" THEN
    {[code |-> 404, body |-> JInvalid],
     [code |-> 503, body |-> FeedDoc(<<StationB1>>, I64(30))]}
  ELSE {}

(***************************************************************************)
(* Gauges and registries.  A GaugeVec is a function from the station_id    *)
(* label values it has been given to the float64 last Set for each.        *)
(* gauges[0] holds the package-level gauges, gauges[r] the gauges that    *)
(* are locals of request r's handler.                                      *)
(***************************************************************************)
\* number of probe requests the server handles at the same time
NumReqs == 2

Reqs == 1..NumReqs

Process == 0

ThreeGauges == {"bikes_available", "bikes_disabled", "docks_available"}

SevenGauges == ThreeGauges \cup
  {"docks_disabled", "installed", "renting", "last_reported_timestamp_seconds"}

GaugeNames(v) == IF v = "seven" THEN SevenGauges ELSE ThreeGauges

\* every build declares its gauges at package level
GaugeOwnerShared(v, r) == Process

\* where the gauges of a build are declared: package level, or locals of
\* the handler of request r
GaugeOwner(v, r) == IF v = "seven" THEN r ELSE Process

NewGaugeVec == <<>>

\* a vector that keeps only the label value set last
SetFresh(vec, id, x) == [l \in {id} |-> x]

\* vec.With(prometheus.Labels{"station_id": id}).Set(x)
Set(vec, id, x) ==
  [l \in DOMAIN vec \cup {id} |-> IF l = id THEN x ELSE vec[l]]

\* bikes_available set from the docks, renting from installed
GaugeValueMixedUp(name, status) ==
  IF name = "bikes_available" THEN Float64(status.DocksAvailable)
  ELSE IF name = "bikes_disabled" THEN Float64(status.BikesDisabled)
  ELSE IF name = "docks_available" THEN Float64(status.BikesAvailable)
  ELSE IF name = "docks_disabled" THEN Float64(status.DocksDisabled)
  ELSE IF name = "installed" THEN BoolToFloat64(status.Renting)
  ELSE IF name = "renting" THEN BoolToFloat64(status.Returning)
  ELSE Float64(status.LastReported)

\* the value one iteration of the populate loop sets on the gauge name
GaugeValue(name, status) ==
  IF name = "bikes_available" THEN Float64(status.BikesAvailable)
  ELSE IF name = "bikes_disabled" THEN Float64(status.BikesDisabled)
  ELSE IF name = "docks_available" THEN Float64(status.DocksAvailable)
  ELSE IF name = "docks_disabled" THEN Float64(status.DocksDisabled)
  ELSE IF name = "installed" THEN BoolToFloat64(status.Installed)
  ELSE IF name = "renting" THEN BoolToFloat64(status.Renting)
  ELSE Float64(status.LastReported)

\* one iteration of the populate loop on the gauges gs of one owner
PopulateOne(gs, names, status) ==
  [n \in DOMAIN gs |->
     IF n \in names THEN Set(gs[n], status.ID, GaugeValue(n, status)) ELSE gs[n]]

\* the samples <<gauge, station_id, value>> one iteration writes
WrittenBy(names, status) ==
  {<<n, status.ID, GaugeValue(n, status)>> : n \in names}

\* registry.Gather: the samples of every collector registered in registry
Gather(registry, gs) ==
  UNION {{<<c[2], l, gs[c[1]][c[2]][l]>> : l \in DOMAIN gs[c[1]][c[2]]} :
         c \in registry}

(***************************************************************************)
(* State.                                                                  *)
(***************************************************************************)
VARIABLES
  variant,  \* the build that runs: "main", "seven" or "poll"
  env,      \* who probes: the connections in use and the targets asked for
  req,      \* req[r]: the handler of probe request r
  gauges,   \* gauges[owner][name]: the GaugeVecs
  poll,     \* the poll loop goroutine
  scraped   \* the samples of the last /metrics scrape in poll mode

vars == <<variant, env, req, gauges, poll, scraped>>

NoBody == [k |-> "none", v |-> 0]

NoMsg == [fmt |-> "", args |-> <<>>]

\* a connection slot with no request on it
NoRequest ==
  [pc |-> "idle", target |-> "", code |-> 0, body |-> NoBody,
   resp |-> StationStatusAPIResponse, idx |-> 0, status |-> 0, msg |-> NoMsg,
   registry |-> {}, rendered |-> {}, wrote |-> {}, fetched |-> FALSE]

NoPoll ==
  [pc |-> "off", body |-> NoBody, resp |-> StationStatusAPIResponse, idx |-> 0,
   sleepLenSeconds |-> I64(0), duration |-> I64(0), open |-> 0, iter |-> 0]

\* the package-level gauges of a build
PackageGauges(v) ==
  IF \E r \in Reqs : GaugeOwner(v, r) = Process
    THEN [n \in GaugeNames(v) |-> NewGaugeVec] ELSE <<>>

InitGauges(v) == [o \in {Process} \cup Reqs |-> IF o = Process THEN PackageGauges(v) ELSE <<>>]

Finished(r) == req[r].pc \in {"done", "panicked"}

\* http.Error(w, text, code): the response of request q is complete
HttpError(q, code, fmt, args) ==
  [q EXCEPT !.pc = "done", !.status = code, !.msg = [fmt |-> fmt, args |-> args]]

(***************************************************************************)
(* probeGBFS, one request r.                                               *)
(***************************************************************************)
\* the target is never checked
TargetMissingUnchecked(target) == FALSE

\* if target == ""
TargetMissing(target) == target = ""

\* a request arrives on a free connection: params.Get("target") and the
\* check of the target
ProbeStart(r, target) ==
  /\ variant \in {"main", "seven"}
  /\ r \in env.clients
  /\ target \in env.targets
  /\ req[r].pc = "idle" \/ Finished(r)
  /\ LET q == [NoRequest EXCEPT !.target = target] IN
     req' = [req EXCEPT ![r] =
       IF TargetMissing(target)
         THEN HttpError(q, 400, "Target parameter missing", <<>>)
         ELSE [q EXCEPT !.pc = "get"]]
  /\ gauges' = [gauges EXCEPT ![r] = <<>>]
  /\ UNCHANGED <<variant, env, poll, scraped>>

\* http.Get(target): a transport error, or a response whose body is unread
HttpGet(r) ==
  /\ req[r].pc = "get"
  /\ \/ req' = [req EXCEPT ![r] =
            HttpError([@ EXCEPT !.fetched = TRUE], 400, "HTTP error: %v", <<"err">>)]
     \/ \E rsp \in ResponsesOf(req[r].target) :
          req' = [req EXCEPT ![r] = [@ EXCEPT !.fetched = TRUE, !.pc = "read",
                                                !.code = rsp.code]]
  /\ UNCHANGED <<variant, env, gauges, poll, scraped>>

\* the collectors the handler registers in its new registry
Registered(v, r) == {<<GaugeOwner(v, r), n>> : n \in GaugeNames(v)}

\* ioutil.ReadAll(resp.Body), then the gauges (locals in the seven-gauge
\* build) and the registry of the request
ReadAll(r) ==
  /\ req[r].pc = "read"
  /\ \/ /\ req' = [req EXCEPT ![r] =
              HttpError(@, 500, "Failed to read HTTP body of target '%s': %v",
                        <<@.target, "err">>)]
        /\ UNCHANGED gauges
     \/ \E rsp \in ResponsesOf(req[r].target) :
          /\ rsp.code = req[r].code
          /\ req' = [req EXCEPT ![r] = [@ EXCEPT !.pc = "decode", !.body = rsp.body,
                                                !.registry = Registered(variant, r)]]
          /\ gauges' = IF GaugeOwner(variant, r) = r
                         THEN [gauges EXCEPT ![r] = [n \in GaugeNames(variant) |-> NewGaugeVec]]
                         ELSE gauges
  /\ UNCHANGED <<variant, env, poll, scraped>>

\* the error of GetStationStatuses is dropped
DecodeFailedIgnored(err) == FALSE

\* if err != nil
DecodeFailed(err) == err # "nil"

\* a handler that would look at resp.StatusCode first and report a response
\* outside 2xx as a fetch error
AfterDecodeByStatus(q, d) ==
  IF q.code < 200 \/ q.code > 299 THEN HttpError(q, 400, "HTTP error: %v", <<"err">>)
  ELSE IF d.panic THEN [q EXCEPT !.pc = "panicked"]
  ELSE IF DecodeFailed(d.err) THEN
    HttpError(q, 400,
      "Could not unmarshal target JSON, target '%s' does not have the expected schema: %v",
      <<q.target, d.err>>)
  ELSE IF d.resp.isNil THEN [q EXCEPT !.pc = "panicked", !.resp = d.resp]
  ELSE [q EXCEPT !.pc = "populate", !.resp = d.resp, !.idx = 1]

\* GetStationStatuses(body) and the check of its error.  A panic inside the
\* decoding, or a nil stationStatusResp reaching the range expression
\* stationStatusResp.Data.Stations, unwinds the handler: net/http recovers
\* it and closes the connection without a response.
AfterDecode(q, d) ==
  IF d.panic THEN [q EXCEPT !.pc = "panicked"]
  ELSE IF DecodeFailed(d.err) THEN
    HttpError(q, 400,
      "Could not unmarshal target JSON, target '%s' does not have the expected schema: %v",
      <<q.target, d.err>>)
  ELSE IF d.resp.isNil THEN [q EXCEPT !.pc = "panicked", !.resp = d.resp]
  ELSE [q EXCEPT !.pc = "populate", !.resp = d.resp, !.idx = 1]

Decode(r) ==
  /\ req[r].pc = "decode"
  /\ req' = [req EXCEPT ![r] = AfterDecode(@, GetStationStatuses(@.body))]
  /\ UNCHANGED <<variant, env, gauges, poll, scraped>>

\* one iteration of for _, status := range stationStatusResp.Data.Stations.
\* Each With(...).Set(...) is atomic in client_golang; the Sets of one
\* iteration are taken as one step, other handlers run between iterations.
Populate(r) ==
  /\ req[r].pc = "populate"
  /\ req[r].idx <= Len(req[r].resp.Stations)
  /\ LET status == req[r].resp.Stations[req[r].idx]
         o == GaugeOwner(variant, r)
     IN /\ gauges' = [gauges EXCEPT ![o] = PopulateOne(@, GaugeNames(variant), status)]
        /\ req' = [req EXCEPT ![r] = [@ EXCEPT !.idx = @ + 1,
                      !.wrote = @ \cup WrittenBy(GaugeNames(variant), status)]]
  /\ UNCHANGED <<variant, env, poll, scraped>>

\* promhttp.HandlerFor(registry, ...).ServeHTTP(w, r) after the loop
Render(r) ==
  /\ req[r].pc = "populate"
  /\ req[r].idx > Len(req[r].resp.Stations)
  /\ req' = [req EXCEPT ![r] = [@ EXCEPT !.pc = "done", !.status = 200,
                                        !.rendered = Gather(req[r].registry, gauges)]]
  /\ UNCHANGED <<variant, env, gauges, poll, scraped>>

NextProbe ==
  \E r \in Reqs :
    \/ \E t \in Targets : ProbeStart(r, t)
    \/ HttpGet(r)
    \/ ReadAll(r)
    \/ Decode(r)
    \/ Populate(r)
    \/ Render(r)

\* one prober asking for any target, one request at a time
InitProbe ==
  /\ variant \in {"main", "seven"}
  /\ env = [clients |-> {1}, targets |-> Targets]
  /\ req = [r \in Reqs |-> NoRequest]
  /\ gauges = InitGauges(variant)
  /\ poll = NoPoll
  /\ scraped = {}

SpecProbe == InitProbe /\ [][NextProbe]_vars

\* NumReqs probers at the same time on the station_status feeds b and c
InitConcurrent ==
  /\ variant \in {"main", "seven"}
  /\ env = [clients |-> Reqs,
            targets |-> {"", "http://b/station_status", "http://c/station_status"}]
  /\ req = [r \in Reqs |-> NoRequest]
  /\ gauges = InitGauges(variant)
  /\ poll = NoPoll
  /\ scraped = {}

SpecConcurrent == InitConcurrent /\ [][NextProbe]_vars

(***************************************************************************)
(* grabThoseMetrics, the poll loop goroutine of the poll build, and the    *)
(* /metrics endpoint that serves the default registry.                     *)
(***************************************************************************)
\* iterations of the poll loop that are followed
MaxIter == 3

minimumPollSleepSeconds == I64(10)

PollAlive == poll.pc \notin {"off", "exited", "crashed"}

\* http.Get(url): log.Fatalln(err) ends the process (os.Exit, deferred calls
\* do not run); otherwise defer resp.Body.Close() is queued until the
\* function returns, which the loop never does
PollGet ==
  /\ poll.pc = "get"
  /\ \/ poll' = [poll EXCEPT !.pc = "exited"]
     \/ poll' = [poll EXCEPT !.pc = "read", !.open = @ + 1]
  /\ UNCHANGED <<variant, env, req, gauges, scraped>>

\* ioutil.ReadAll(resp.Body)
PollReadAll ==
  /\ poll.pc = "read"
  /\ \/ poll' = [poll EXCEPT !.pc = "exited"]
     \/ \E rsp \in ResponsesOf(PollURL) :
          poll' = [poll EXCEPT !.pc = "decode", !.body = rsp.body]
  /\ UNCHANGED <<variant, env, req, gauges, scraped>>

\* stationStatusResp, _ := GetStationStatuses(body): the error is dropped.
\* A panic inside the decoding, or a nil stationStatusResp reaching the
\* range expression, crashes the process (the deferred Closes run first).
PollAfterDecode(p, d) ==
  IF d.panic \/ d.resp.isNil
    THEN [p EXCEPT !.pc = "crashed", !.resp = d.resp, !.open = 0]
    ELSE [p EXCEPT !.pc = "populate", !.resp = d.resp, !.idx = 1]

PollDecode ==
  /\ poll.pc = "decode"
  /\ poll' = PollAfterDecode(poll, GetStationStatuses(poll.body))
  /\ UNCHANGED <<variant, env, req, gauges, scraped>>

\* one iteration of for _, status := range stationStatusResp.Data.Stations
PollPopulate ==
  /\ poll.pc = "populate"
  /\ poll.idx <= Len(poll.resp.Stations)
  /\ gauges' = [gauges EXCEPT ![Process] =
                  PopulateOne(@, GaugeNames(variant), poll.resp.Stations[poll.idx])]
  /\ poll' = [poll EXCEPT !.idx = @ + 1]
  /\ UNCHANGED <<variant, env, req, scraped>>

\* sleepLenSeconds := Max(minimumPollSleepSeconds, stationStatusResp.TTL+1)
SleepLen(ttl) == Max(minimumPollSleepSeconds, Add1(ttl))

\* after the loop: the pace is computed and time.Sleep is entered
PollSleep ==
  /\ poll.pc = "populate"
  /\ poll.idx > Len(poll.resp.Stations)
  /\ poll' = [poll EXCEPT !.pc = "sleep",
                          !.sleepLenSeconds = SleepLen(poll.resp.TTL),
                          !.duration = Duration(SleepLen(poll.resp.TTL))]
  /\ UNCHANGED <<variant, env, req, gauges, scraped>>

\* time.Sleep returns and the next iteration begins with new resp, body,
\* stationStatusResp and sleepLenSeconds
PollWake ==
  /\ poll.pc = "sleep"
  /\ poll.iter < MaxIter
  /\ poll' = [NoPoll EXCEPT !.pc = "get", !.iter = poll.iter + 1, !.open = poll.open]
  /\ UNCHANGED <<variant, env, req, gauges, scraped>>

\* the collectors promauto registered in the default registry
DefaultRegistry == {<<Process, n>> : n \in ThreeGauges}

\* GET /metrics while the process lives
Scrape ==
  /\ PollAlive
  /\ scraped' = Gather(DefaultRegistry, gauges)
  /\ UNCHANGED <<variant, env, req, gauges, poll>>

NextPoll ==
  \/ PollGet
  \/ PollReadAll
  \/ PollDecode
  \/ PollPopulate
  \/ PollSleep
  \/ PollWake
  \/ Scrape

InitPoll ==
  /\ variant = "poll"
  /\ env = [clients |-> {}, targets |-> {PollURL}]
  /\ req = [r \in Reqs |-> NoRequest]
  /\ gauges = InitGauges(variant)
  /\ poll = [NoPoll EXCEPT !.pc = "get", !.iter = 1]
  /\ scraped = {}

SpecPoll == InitPoll /\ [][NextPoll]_vars

\* time.Sleep returns when its duration is over and the goroutine started
\* by go grabThoseMetrics() goes on with the next iteration.  Nothing is
\* assumed of http.Get and the read of the body: http.DefaultClient has no
\* timeout and they may wait for ever.
SpecPollLive == SpecPoll /\ WF_vars(PollWake)

(***************************************************************************)
(* Properties.                                                             *)
(***************************************************************************)
Answered(r, code) == req[r].pc = "done" /\ req[r].status = code

\* the station ids of the feed that request r decoded
OwnIds(r) == {req[r].resp.Stations[i].ID : i \in 1..Len(req[r].resp.Stations)}

\* the last entry of stations with station id
LastWith(stations, id) ==
  stations[CHOOSE i \in 1..Len(stations) :
             /\ stations[i].ID = id
             /\ \A j \in (i + 1)..Len(stations) : stations[j].ID # id]

\* one sample per gauge name and station id of stations, with the values of
\* the last entry of that id
SamplesOf(names, stations) ==
  {<<n, id, GaugeValue(n, LastWith(stations, id))>> :
     n \in names, id \in {stations[i].ID : i \in 1..Len(stations)}}

\* C1: in the three-gauge probe handler of src/main.go the output rendered
\* for a request shows only station ids of that request's own feed.
C1_OnlyOwnStations ==
  \A r \in Reqs :
    variant = "main" /\ Answered(r, 200) =>
      \A smp \in req[r].rendered : smp[2] \in OwnIds(r)

\* C2: in the seven-gauge probe handler the samples rendered for a request
\* are exactly those of its own decoded feed: one per gauge per station id,
\* with the feed's values, and nothing of any other request.
C2_ExactlyOwnSamples ==
  \A r \in Reqs :
    variant = "seven" /\ Answered(r, 200) =>
      /\ req[r].rendered = SamplesOf(SevenGauges, req[r].resp.Stations)
      /\ req[r].rendered \subseteq req[r].wrote

\* C2 witness: a rendered response with samples while another request, for
\* another target, is in the middle of writing its own gauges
C2_Witness ==
  \E r, q \in Reqs :
    /\ variant = "seven" /\ r # q
    /\ Answered(r, 200) /\ req[r].rendered # {}
    /\ req[q].pc = "populate" /\ req[q].wrote # {}
    /\ req[q].idx <= Len(req[q].resp.Stations)
    /\ req[q].target # req[r].target

\* the error GetStationStatuses reports for the body request r has read
DecodeErr(body) == GetStationStatuses(body).err

\* the body was read
HasBody(q) == q.body # NoBody

\* the response of request r names its target
NamesTarget(r) ==
  \E i \in 1..Len(req[r].msg.args) : req[r].msg.args[i] = req[r].target

\* C3: in both probe handlers, once decoding the body has failed the request
\* is answered 400 and has written no gauge observation and rendered nothing.
C3_DecodeFailureWritesNothing ==
  \A r \in Reqs :
    HasBody(req[r]) /\ req[r].pc # "decode" /\ DecodeErr(req[r].body) # "nil" =>
      /\ Answered(r, 400)
      /\ req[r].wrote = {}
      /\ req[r].rendered = {}
      /\ \A n \in DOMAIN gauges[r] : gauges[r][n] = NewGaugeVec

\* C3 witness: a request answered after its body failed to decode half way
\* through the stations array
C3_Witness ==
  \E r \in Reqs :
    /\ req[r].pc = "done"
    /\ req[r].body = FeedDoc(<<Station7001, StationBadType>>, I64(30))

\* the member key of a JSON object, or null when it has none
MemberOf(j, key) ==
  IF j.k = "obj" /\ \E i \in 1..Len(j.v) : j.v[i].key = key
    THEN j.v[CHOOSE i \in 1..Len(j.v) : j.v[i].key = key].val
    ELSE JNull

\* the body is JSON without data.stations
MissingStations(body) ==
  /\ body.k \notin {"invalid", "none"}
  /\ MemberOf(MemberOf(body, "data"), "stations") = JNull

\* C4: a body that is not JSON, or JSON missing data.stations, is answered
\* 400 with an error body that names the target, never 200.
C4_MissingStationsIs400 ==
  \A r \in Reqs :
    req[r].pc = "done" /\ (req[r].body.k = "invalid" \/ MissingStations(req[r].body)) =>
      req[r].status = 400 /\ NamesTarget(r)

\* C5: decoding ends with a usable response or with an error, never with a
\* nil response and a nil error, and neither a handler nor the poll loop
\* panics.
C5_NeverNilNeverPanics ==
  /\ \A r \in Reqs : req[r].pc # "panicked" /\ ~req[r].resp.isNil
  /\ poll.pc # "crashed" /\ ~poll.resp.isNil

\* C6: a probe without a target, or with an empty one, is answered 400
\* "Target parameter missing" and nothing else happens for it.
C6_MissingTargetIsTerminal ==
  \A r \in Reqs :
    req[r].pc # "idle" /\ req[r].target = "" =>
      /\ Answered(r, 400)
      /\ req[r].msg = [fmt |-> "Target parameter missing", args |-> <<>>]
      /\ ~req[r].fetched
      /\ req[r].registry = {}
      /\ req[r].wrote = {}
      /\ req[r].rendered = {}

\* C6 witness: a request without target that has been answered
C6_Witness ==
  \E r \in Reqs : req[r].pc = "done" /\ req[r].target = "" /\ req[r].status = 400

\* the stage of request q that failed first
GetFailed(q) == q.fetched /\ q.code = 0

BodyReadFailed(q) == q.code # 0 /\ ~HasBody(q)

SchemaMismatch(q) == HasBody(q) /\ DecodeErr(q.body) # "nil"

Outcome(q) ==
  IF GetFailed(q) THEN 400
  ELSE IF BodyReadFailed(q) THEN 500
  ELSE IF SchemaMismatch(q) THEN 400
  ELSE 200

\* C7: every probe with a target ends in the one outcome of its first failed
\* stage: GET 400, body read 500, schema mismatch 400, otherwise 200.
C7_OneOutcomePerRequest ==
  \A r \in Reqs :
    Finished(r) /\ req[r].target # "" => req[r].status = Outcome(req[r])

\* C8: after a failed decode (as after a failed fetch or body read) the poll
\* loop has ended the process: it neither populates the gauges nor sleeps
\* nor starts another iteration.
C8_DecodeFailureIsFatal ==
  HasBody(poll) /\ poll.pc # "decode" /\ DecodeErr(poll.body) # "nil" =>
    poll.pc \in {"exited", "crashed"}

\* C9: the computed sleep is max(10, ttl + 1) on int64: never below 10
\* whatever the ttl, 10 for ttl 5 and 31 for ttl 30.
C9_SleepNeverBelowMinimum ==
  poll.pc = "sleep" =>
    /\ ~Gt(I64(10), poll.sleepLenSeconds)
    /\ poll.resp.TTL = I64(5) => poll.sleepLenSeconds = I64(10)
    /\ poll.resp.TTL = I64(30) => poll.sleepLenSeconds = I64(31)
    /\ poll.resp.TTL \in {I64(0), I64(-1), MaxInt64, MinInt64} =>
         poll.sleepLenSeconds = I64(10)

\* C9 witness: the loop sleeps after a feed whose ttl is the largest int64
C9_Witness == poll.pc = "sleep" /\ poll.resp.TTL = MaxInt64

\* the feed of one station 7001
Feed7001 == FeedDoc(<<Station7001>>, I64(30))

RenderedFeed7001(r) == Answered(r, 200) /\ req[r].body = Feed7001

StationEntries(body) ==
  IF MemberOf(MemberOf(body, "data"), "stations").k = "arr"
    THEN MemberOf(MemberOf(body, "data"), "stations").v ELSE <<>>

\* request r has decoded its body without error
DecodedOk(r) ==
  /\ req[r].pc \in {"populate", "done"}
  /\ HasBody(req[r])
  /\ DecodeErr(req[r].body) = "nil"

\* the index of the last entry of stations with station id
LastIndex(stations, id) ==
  CHOOSE i \in 1..Len(stations) :
    /\ stations[i].ID = id
    /\ \A j \in (i + 1)..Len(stations) : stations[j].ID # id

\* the boolean an integer wire value stands for: 0 is false, the rest true
WireBool(j) == IF j.v = I64(0) THEN FALSE ELSE TRUE

\* the float a rendered boolean gauge shows for an integer wire value
WireGauge(j) == IF j.v = I64(0) THEN I64(0) ELSE I64(1)

\* the decoded entry status has the booleans of its wire entry
BooleansOf(entry, status) ==
  /\ MemberOf(entry, "is_installed").k = "num" =>
       status.Installed = WireBool(MemberOf(entry, "is_installed"))
  /\ MemberOf(entry, "is_renting").k = "num" =>
       status.Renting = WireBool(MemberOf(entry, "is_renting"))
  /\ MemberOf(entry, "is_returning").k = "num" =>
       status.Returning = WireBool(MemberOf(entry, "is_returning"))

\* the samples of the gauge name rendered for station id
SamplesFor(rendered, name, id) ==
  {smp \in rendered : smp[1] = name /\ smp[2] = id}

EntryWellTyped(entry) ==
  /\ entry.k = "obj"
  /\ \A i \in 1..Len(entry.v) :
       IF entry.v[i].key = "station_id" THEN entry.v[i].val.k = "str"
       ELSE entry.v[i].val.k = "num"

\* a station_status document: an object with integer last_updated and ttl
\* and a data.stations array of well-typed entries
FeedShaped(body) ==
  /\ body.k = "obj"
  /\ MemberOf(body, "last_updated").k = "num"
  /\ MemberOf(body, "ttl").k = "num"
  /\ MemberOf(MemberOf(body, "data"), "stations").k = "arr"
  /\ \A i \in 1..Len(StationEntries(body)) : EntryWellTyped(StationEntries(body)[i])

\* the entry has no member key
Omits(entry, key) == \A i \in 1..Len(entry.v) : entry.v[i].key # key

OmitsDisabled(entry) ==
  Omits(entry, "num_bikes_disabled") \/ Omits(entry, "num_docks_disabled")

\* the one sample 0 of gauge name for station id when the last entry of
\* that id omits the member key
ZeroWhenOmitted(r, name, key, id) ==
  Omits(StationEntries(req[r].body)[LastIndex(req[r].resp.Stations, id)], key) =>
    SamplesFor(req[r].rendered, name, id) = {<<name, id, Float64(I64(0))>>}

\* C12: a station_status payload with entries that omit num_bikes_disabled
\* or num_docks_disabled decodes without error, the omitted fields decode
\* as 0, the probe answers 200 and the seven-gauge handler renders the
\* bikes-disabled and docks-disabled gauges of such a station as 0.
C12_OmittedDisabledIsZero ==
  \A r \in Reqs :
    /\ HasBody(req[r]) /\ req[r].pc # "decode"
    /\ FeedShaped(req[r].body)
    /\ \E i \in 1..Len(StationEntries(req[r].body)) :
         OmitsDisabled(StationEntries(req[r].body)[i])
    => /\ DecodeErr(req[r].body) = "nil"
       /\ req[r].pc \in {"populate", "done"}
       /\ req[r].pc = "done" => req[r].status = 200
       /\ Len(req[r].resp.Stations) = Len(StationEntries(req[r].body))
       /\ \A i \in 1..Len(req[r].resp.Stations) :
            /\ Omits(StationEntries(req[r].body)[i], "num_bikes_disabled") =>
                 req[r].resp.Stations[i].BikesDisabled = I64(0)
            /\ Omits(StationEntries(req[r].body)[i], "num_docks_disabled") =>
                 req[r].resp.Stations[i].DocksDisabled = I64(0)
       /\ variant = "seven" /\ req[r].pc = "done" =>
            \A id \in OwnIds(r) :
              /\ ZeroWhenOmitted(r, "bikes_disabled", "num_bikes_disabled", id)
              /\ ZeroWhenOmitted(r, "docks_disabled", "num_docks_disabled", id)

\* C12 witness: the seven-gauge handler has rendered a feed in which
\* station A1 omits num_docks_disabled and station 7001 omits both
C12_Witness ==
  \E r \in Reqs :
    /\ variant = "seven" /\ Answered(r, 200)
    /\ req[r].body = FeedDoc(<<StationA1Later, Station7001>>, I64(30))
    /\ <<"docks_disabled", "A1", Float64(I64(0))>> \in req[r].rendered
    /\ <<"bikes_disabled", "A1", Float64(I64(3))>> \in req[r].rendered
    /\ <<"bikes_disabled", "7001", Float64(I64(0))>> \in req[r].rendered

\* the stages of one iteration, in their order
PollStages ==
  {<<"get", "read">>, <<"read", "decode">>, <<"decode", "populate">>,
   <<"populate", "sleep">>, <<"sleep", "get">>}

\* a step of the running loop goes from a stage to the next one
C13_Order ==
  [][poll'.pc # poll.pc /\ poll'.pc \notin {"exited", "crashed"} =>
       <<poll.pc, poll'.pc>> \in PollStages]_vars

\* the duration handed to time.Sleep is at least 10 seconds, in nanoseconds
C13_SleepLongEnough ==
  [](poll.pc = "sleep" => ~Gt(Duration(minimumPollSleepSeconds), poll.duration))

\* a completed iteration is followed by the fetch of the next one
C13_NextFetch == (poll.pc = "sleep" /\ poll.iter < MaxIter) ~> (poll.pc = "get")

\* C13: the poll loop runs Fetch, Decode, Populate, Sleep in that order in
\* every iteration, every completed iteration is eventually followed by
\* another fetch, and the sleep between two consecutive fetches lasts at
\* least minimumPollSleepSeconds (10 seconds).
C13_PollLoopPaced == C13_Order /\ C13_SleepLongEnough /\ C13_NextFetch

\* the target answered request q with a status outside 2xx
NonSuccess(q) == q.code # 0 /\ (q.code < 200 \/ q.code > 299)

SchemaFmt ==
  "Could not unmarshal target JSON, target '%s' does not have the expected schema: %v"

\* C14: the probe handler does not look at the HTTP status of the target's
\* response: a response outside 2xx is read and decoded like any other, a
\* decodable body gives 200 with the samples of its stations, and an
\* undecodable one the 400 schema error, not the fetch error.
C14_StatusNotInspected ==
  \A r \in Reqs :
    NonSuccess(req[r]) /\ HasBody(req[r]) /\ req[r].pc = "done" =>
      IF DecodeErr(req[r].body) = "nil"
        THEN /\ req[r].status = 200
             /\ SamplesOf(GaugeNames(variant), req[r].resp.Stations) \subseteq req[r].rendered
        ELSE /\ req[r].status = 400
             /\ req[r].msg.fmt = SchemaFmt
             /\ req[r].rendered = {}

\* C14 witness: a target answered 503 with a station_status document and the
\* probe rendered its station
C14_Witness ==
  \E r \in Reqs :
    /\ req[r].code = 503 /\ Answered(r, 200)
    /\ \E smp \in req[r].rendered : smp[2] = "B1"

\* a target answered 404 with a body that is not JSON and the probe reported
\* the schema error
C14_Witness404 ==
  \E r \in Reqs :
    req[r].code = 404 /\ Answered(r, 400) /\ req[r].msg.fmt = SchemaFmt

\* the station the poll loop is writing in this step
PollWrites(id) ==
  /\ poll.pc = "populate"
  /\ poll.idx <= Len(poll.resp.Stations)
  /\ poll.resp.Stations[poll.idx].ID = id

\* the station id stays in the gauge name, and its value changes only when
\* the loop writes that station, to the value of the entry written
KeepsStation(name, id) ==
  /\ id \in DOMAIN gauges'[Process][name]
  /\ gauges'[Process][name][id] # gauges[Process][name][id] =>
       /\ PollWrites(id)
       /\ gauges'[Process][name][id] = GaugeValue(name, poll.resp.Stations[poll.idx])

\* a scrape shows every station of every gauge with its present value
ScrapeShowsAll ==
  \A name \in ThreeGauges : \A id \in DOMAIN gauges[Process][name] :
    <<name, id, gauges[Process][name][id]>> \in scraped'

\* C15: in poll mode the station ids of the shared gauges never shrink: a
\* station once written stays, with the values last written for it, in the
\* gauges and in every later scrape, whatever the later feeds contain.
C15_StationsNeverShrink ==
  [][/\ \A name \in ThreeGauges : \A id \in DOMAIN gauges[Process][name] :
          KeepsStation(name, id)
     /\ scraped' # scraped => ScrapeShowsAll]_vars

\* C15 witness: the scrape still shows station B1 after a later iteration
\* has decoded and written a feed without B1
C15_Witness ==
  /\ poll.pc = "sleep" /\ poll.iter >= 2
  /\ poll.body = FeedDoc(<<StationA1Later>>, I64(30))
  /\ <<"bikes_available", "A1", Float64(I64(0))>> \in scraped
  /\ <<"bikes_available", "B1", Float64(I64(7))>> \in scraped
  /\ scraped = Gather(DefaultRegistry, gauges)

\* stations has several entries with station id
Repeated(stations, id) ==
  \E i, j \in 1..Len(stations) :
    i < j /\ stations[i].ID = id /\ stations[j].ID = id

\* the output of request r has one sample of every registered gauge for
\* station id, with the value of the last entry of that id in its feed
LastEntryRendered(r, id) ==
  \A name \in GaugeNames(variant) :
    SamplesFor(req[r].rendered, name, id) =
      {<<name, id, GaugeValue(name, LastWith(req[r].resp.Stations, id))>>}

\* C16: when the feed a probe request decoded has several entries with the
\* same station_id, its output has exactly one sample per registered gauge
\* for that id, with the value of the last such entry, and the request is
\* answered 200.
C16_DuplicateLastWins ==
  \A r \in Reqs :
    DecodedOk(r) /\ req[r].pc = "done" =>
      /\ req[r].status = 200
      /\ \A id \in OwnIds(r) :
           Repeated(req[r].resp.Stations, id) => LastEntryRendered(r, id)

\* C17: in the poll loop the body fetched in an iteration is closed before
\* the next fetch, so at most one fetched response body is open at any time.
C17_AtMostOneOpenBody == poll.open <= 1

====
